---- MODULE Spec2Model ----
(***************************************************************************)
(* A model of pdc-ts (src/ts/pdc-ts.ts): the PdcTs class, its Execute      *)
(* method, the two private helpers PdcFile and PdcStream that assemble the *)
(* argument list and spawn the pandoc process, and the four event handlers *)
(* Execute registers on the child process.                                 *)
(*                                                                         *)
(* JavaScript strings are TLA+ strings.  An optional value (a field that   *)
(* may be undefined, or an exit code that may be null) is a sequence of    *)
(* length 0 or 1.  A chunk of a child's output is a Buffer: a sequence of  *)
(* bytes.                                                                  *)
(***************************************************************************)
EXTENDS Integers, Sequences, FiniteSets

VARIABLES
    pandocCommand,  \* this.pandocCommand
    request,        \* per call: the args object Execute was called with
    promise,        \* per call: the promise Execute returns
    result,         \* per call: let result
    error,          \* per call: let error
    pandoc,         \* per call: let pandoc (the ChildProcess), with its stdin
    spawned,        \* every call of child_process.spawn, in order
    emitted,        \* per call: what the child process has emitted so far
    trace           \* per call: the handlers and stream calls run so far

vars == <<pandocCommand, request, promise, result, error, pandoc, spawned,
          emitted, trace>>

----------------------------------------------------------------------------
(* Bounds and input sets *)

\* The most 'data' events (stdout and stderr together) one child emits.
MaxData == 2

Calls == {"c1", "c2"}

Absent == <<>>
Some(x) == <<x>>

Commands == {"pandoc"}

OptionalStrings(S) == {Absent} \cup {Some(s) : s \in S \cup {""}}

Requests ==
    [ from           : {"markdown"},
      to             : {"html"},
      outputToFile   : BOOLEAN,
      pandocArgs     : {Absent, Some(<<"-s", "-v">>)},
      spawnOpts      : {Absent, Some("opts")},
      sourceText     : OptionalStrings({"# Heading"}),
      sourceFilePath : OptionalStrings({"/in.md"}),
      sourceEncoding : {Absent, Some("latin1")},
      destFilePath   : OptionalStrings({"/out.html"}) ]

\* Buffers a child writes.  On stdout: "h" with the first byte of a two-byte
\* character, and that character's second byte (the pipe split it across two
\* chunks).  On stderr: "w" and a whole two-byte character.
StdoutChunks == {<<104, 195>>, <<169>>}
StderrChunks == {<<119, 195, 169>>}

\* err.message of an 'error' event: a failed spawn, an abort by spawnOpts.signal.
ErrorMessages == {"spawn pandoc ENOENT", "The operation was aborted"}

\* The code of a 'close' event; null (Absent) when a signal ended the child.
ExitCodes == {Some(0), Some(22), Some(-2), Absent}

----------------------------------------------------------------------------
(* JavaScript semantics the code relies on *)

\* x == null || x == undefined
IsNullish(o) == o = Absent

\* The truthiness of an optional string: undefined and '' are falsy.
Truthy(o) == o /= Absent /\ o[1] /= ""

\* The value an optional field reads as.
Value(o) == IF o = Absent THEN "undefined" ELSE o[1]

\* Array.prototype.push(...items) and Array.prototype.concat(items)
Push(arr, items) == arr \o items
Concat(arr, items) == arr \o items

Digit(d) == CASE d = 0 -> "0" [] d = 1 -> "1" [] d = 2 -> "2" [] d = 3 -> "3"
              [] d = 4 -> "4" [] d = 5 -> "5" [] d = 6 -> "6" [] d = 7 -> "7"
              [] d = 8 -> "8" [] d = 9 -> "9"

RECURSIVE NatToString(_)
NatToString(n) ==
    IF n < 10 THEN Digit(n) ELSE NatToString(n \div 10) \o Digit(n % 10)

\* `${code}` for a number or null
CodeToString(code) ==
    IF code = Absent THEN "null"
    ELSE IF code[1] < 0 THEN "-" \o NatToString(-code[1])
    ELSE NatToString(code[1])

\* The character of an ASCII byte the chunks use.
Chr(b) == CASE b = 104 -> "h" [] b = 119 -> "w"

IsLead2(b) == b >= 194 /\ b <= 223
IsContinuation(b) == b >= 128 /\ b <= 191

\* A two-byte code point, written as an escape.
CodePoint2(b1, b2) ==
    IF b1 = 195 /\ b2 = 169 THEN "\\u00E9"
    ELSE "\\u" \o NatToString((b1 - 192) * 64 + (b2 - 128))

ReplacementChar == "\\uFFFD"

\* Buffer.prototype.toString('utf8'), which `result += data` applies to each
\* chunk on its own: bytes below 128 are characters, a lead byte with its
\* continuation is one character, any other byte decodes to U+FFFD.
RECURSIVE BufferToString(_)
BufferToString(buf) ==
    IF buf = <<>> THEN ""
    ELSE IF buf[1] < 128 THEN Chr(buf[1]) \o BufferToString(Tail(buf))
    ELSE IF IsLead2(buf[1]) /\ Len(buf) >= 2 /\ IsContinuation(buf[2])
         THEN CodePoint2(buf[1], buf[2]) \o BufferToString(Tail(Tail(buf)))
    ELSE ReplacementChar \o BufferToString(Tail(buf))

\* A promise settles once: resolve and reject of a settled promise do nothing.
Pending == [state |-> "pending", value |-> ""]
NotCalled == [state |-> "none", value |-> ""]
Resolve(p, v) == IF p.state = "pending" THEN [state |-> "fulfilled", value |-> v] ELSE p
Reject(p, v) == IF p.state = "pending" THEN [state |-> "rejected", value |-> v] ELSE p

----------------------------------------------------------------------------
(* PdcFile and PdcStream: the spawn call each makes *)

SpawnCall(inputArgs, spawnOpts) ==
    [file |-> pandocCommand, args |-> inputArgs, options |-> spawnOpts]

OutputArgs(args, inputArgs) ==
    IF args.outputToFile
    THEN Push(inputArgs, <<"-o", Value(args.destFilePath)>>)
    ELSE inputArgs

ExtraArgs(args, inputArgs) ==
    IF ~IsNullish(args.pandocArgs)
    THEN Concat(inputArgs, args.pandocArgs[1])
    ELSE inputArgs

\* PdcFile with the extra arguments put before the source path.
PdcFileArgsFirst(args) ==
    LET a0 == <<"-f", args.from, "-t", args.to>>
        a1 == OutputArgs(args, a0)
        a2 == ExtraArgs(args, a1)
        a3 == Push(a2, <<Value(args.sourceFilePath)>>)
    IN  SpawnCall(a3, args.spawnOpts)

PdcFile(args) ==
    LET a0 == <<"-f", args.from, "-t", args.to>>
        a1 == OutputArgs(args, a0)
        a2 == Push(a1, <<Value(args.sourceFilePath)>>)
        a3 == ExtraArgs(args, a2)
    IN  SpawnCall(a3, args.spawnOpts)

\* PdcStream with the source path passed as well, as PdcFile passes it.
PdcStreamWithPath(args) ==
    LET a0 == <<"-f", args.from, "-t", args.to>>
        a1 == OutputArgs(args, a0)
        a2 == Push(a1, <<Value(args.sourceFilePath)>>)
        a3 == ExtraArgs(args, a2)
    IN  SpawnCall(a3, args.spawnOpts)

PdcStream(args) ==
    LET a0 == <<"-f", args.from, "-t", args.to>>
        a1 == OutputArgs(args, a0)
        a2 == ExtraArgs(args, a1)
    IN  SpawnCall(a2, args.spawnOpts)

----------------------------------------------------------------------------
(* Execute *)

NoDestination(args) == args.outputToFile /\ IsNullish(args.destFilePath)

\* InputMode without the final else branch: a call with no text takes the
\* file branch whether or not it has a path.
InputModeNoElse(args) ==
    IF Truthy(args.sourceText) THEN "stream" ELSE "file"

\* InputMode with the test `args.sourceText !== undefined` in place of the
\* truthiness test of line 52.
InputModeIfDefined(args) ==
    IF args.sourceText /= Absent THEN "stream"
    ELSE IF Truthy(args.sourceFilePath) THEN "file"
    ELSE "none"

\* Which branch of lines 52-75 the call takes.
InputMode(args) ==
    IF Truthy(args.sourceText) THEN "stream"
    ELSE IF Truthy(args.sourceFilePath) THEN "file"
    ELSE "none"

\* StdinEncoding with sourceEncoding ignored.
StdinEncodingUtf8(args) == "utf8"

StdinEncoding(args) ==
    IF args.sourceEncoding /= Absent THEN args.sourceEncoding[1] ELSE "utf8"

NoStdin == [written |-> <<>>, ended |-> FALSE]

\* StdinAfterExecute with the test `args.sourceText !== undefined` in place
\* of the truthiness test.
StdinAfterExecuteIfDefined(args) ==
    IF args.sourceText /= Absent
    THEN [written |-> <<[chunk |-> args.sourceText[1], encoding |-> StdinEncoding(args)]>>,
          ended |-> TRUE]
    ELSE NoStdin

\* pandoc.stdin after the code at lines 118-120 has run.
StdinAfterExecute(args) ==
    IF Truthy(args.sourceText)
    THEN [written |-> <<[chunk |-> args.sourceText[1], encoding |-> StdinEncoding(args)]>>,
          ended |-> TRUE]
    ELSE NoStdin

Registrations == <<"on error", "on stdout data", "on stderr data", "on close">>

TraceAfterExecute(args) ==
    <<"spawn">> \o Registrations \o
        (IF Truthy(args.sourceText) THEN <<"stdin.end">> ELSE <<>>)

NothingEmitted == [stdout |-> <<>>, stderr |-> <<>>, error |-> Absent, close |-> Absent]

ExecuteSpawn(c, args, call) ==
    /\ promise' = [promise EXCEPT ![c] = Pending]
    /\ spawned' = Append(spawned, [call |-> c, file |-> call.file,
                                   args |-> call.args, options |-> call.options])
    /\ pandoc' = [pandoc EXCEPT ![c] =
                    Some([spawnfile |-> call.file, spawnargs |-> call.args,
                          stdin |-> StdinAfterExecute(args)])]
    /\ trace' = [trace EXCEPT ![c] = TraceAfterExecute(args)]

ExecuteReject(c, reason) ==
    /\ promise' = [promise EXCEPT ![c] = Reject(Pending, reason)]
    /\ UNCHANGED <<spawned, pandoc, trace>>

Execute(c, args) ==
    /\ promise[c].state = "none"
    /\ request' = [request EXCEPT ![c] = Some(args)]
    /\ IF NoDestination(args)
       THEN ExecuteReject(c, "No file destination provided, aborting.")
       ELSE IF InputMode(args) = "stream" THEN ExecuteSpawn(c, args, PdcStream(args))
       ELSE IF InputMode(args) = "file"
            THEN ExecuteSpawn(c, args, PdcFile(args))
       ELSE ExecuteReject(c, "No input, aborting.")
    /\ UNCHANGED <<pandocCommand, result, error, emitted>>

----------------------------------------------------------------------------
(* The child process's events and the handlers Execute registered for them *)

\* The child exists, its listeners are registered and it has not closed.
Listening(c) == pandoc[c] /= Absent /\ emitted[c].close = Absent

DataCount(c) == Len(emitted[c].stdout) + Len(emitted[c].stderr)

\* OnError with the rejection left out: the error is swallowed.
OnErrorSwallowed(c, message) ==
    /\ Listening(c)
    /\ emitted[c].error = Absent
    /\ emitted' = [emitted EXCEPT ![c].error = Some(message)]
    /\ trace' = [trace EXCEPT ![c] = Append(trace[c], "error")]
    /\ UNCHANGED <<pandocCommand, request, promise, result, error, pandoc, spawned>>

\* pandoc.on('error', err => ...)
OnError(c, message) ==
    /\ Listening(c)
    /\ emitted[c].error = Absent
    /\ emitted' = [emitted EXCEPT ![c].error = Some(message)]
    /\ promise' = [promise EXCEPT ![c] = Reject(promise[c], message)]
    /\ trace' = [trace EXCEPT ![c] = Append(trace[c], "error")]
    /\ UNCHANGED <<pandocCommand, request, result, error, pandoc, spawned>>

\* OnStdoutData with the chunk put before the text collected so far.
OnStdoutDataPrepend(c, data) ==
    /\ Listening(c)
    /\ DataCount(c) < MaxData
    /\ emitted' = [emitted EXCEPT ![c].stdout = Append(emitted[c].stdout, data)]
    /\ result' = [result EXCEPT ![c] = BufferToString(data) \o result[c]]
    /\ trace' = [trace EXCEPT ![c] = Append(trace[c], "stdout data")]
    /\ UNCHANGED <<pandocCommand, request, promise, error, pandoc, spawned>>

\* OnStdoutData with `result` kept in the instance instead of in the call:
\* every call's text grows by the chunk.
OnStdoutDataShared(c, data) ==
    /\ Listening(c)
    /\ DataCount(c) < MaxData
    /\ emitted' = [emitted EXCEPT ![c].stdout = Append(emitted[c].stdout, data)]
    /\ result' = [d \in Calls |-> result[d] \o BufferToString(data)]
    /\ trace' = [trace EXCEPT ![c] = Append(trace[c], "stdout data")]
    /\ UNCHANGED <<pandocCommand, request, promise, error, pandoc, spawned>>

\* pandoc.stdout.on('data', data => ...)
OnStdoutData(c, data) ==
    /\ Listening(c)
    /\ DataCount(c) < MaxData
    /\ emitted' = [emitted EXCEPT ![c].stdout = Append(emitted[c].stdout, data)]
    /\ result' = [result EXCEPT ![c] = result[c] \o BufferToString(data)]
    /\ trace' = [trace EXCEPT ![c] = Append(trace[c], "stdout data")]
    /\ UNCHANGED <<pandocCommand, request, promise, error, pandoc, spawned>>

\* OnStderrData that takes output on standard error for a failure and
\* rejects the call at once.
OnStderrDataRejects(c, data) ==
    /\ Listening(c)
    /\ DataCount(c) < MaxData
    /\ emitted' = [emitted EXCEPT ![c].stderr = Append(emitted[c].stderr, data)]
    /\ error' = [error EXCEPT ![c] = error[c] \o BufferToString(data)]
    /\ promise' = [promise EXCEPT ![c] = Reject(promise[c], BufferToString(data))]
    /\ trace' = [trace EXCEPT ![c] = Append(trace[c], "stderr data")]
    /\ UNCHANGED <<pandocCommand, request, result, pandoc, spawned>>

\* pandoc.stderr.on('data', data => ...)
OnStderrData(c, data) ==
    /\ Listening(c)
    /\ DataCount(c) < MaxData
    /\ emitted' = [emitted EXCEPT ![c].stderr = Append(emitted[c].stderr, data)]
    /\ error' = [error EXCEPT ![c] = error[c] \o BufferToString(data)]
    /\ trace' = [trace EXCEPT ![c] = Append(trace[c], "stderr data")]
    /\ UNCHANGED <<pandocCommand, request, promise, result, pandoc, spawned>>

\* CloseMessage with the two separators exchanged.
CloseMessageSwapped(code, err) ==
    LET m1 == IF code /= Some(0)
              THEN "Pandoc exited with code " \o CodeToString(code)
                       \o (IF err /= "" THEN "." ELSE ": ")
              ELSE ""
    IN  IF err /= "" THEN m1 \o err ELSE m1

\* The message the close handler builds (lines 96-104).
CloseMessage(code, err) ==
    LET m1 == IF code /= Some(0)
              THEN "Pandoc exited with code " \o CodeToString(code)
                       \o (IF err /= "" THEN ": " ELSE ".")
              ELSE ""
    IN  IF err /= "" THEN m1 \o err ELSE m1

\* CloseOutcome resolving with the empty string instead of the collected text.
CloseOutcomeEmpty(p, code, res, err) ==
    IF code /= Some(0) THEN Reject(p, CloseMessage(code, err)) ELSE Resolve(p, "")

\* CloseOutcome as a completion callback would behave: the close handler's
\* outcome replaces whatever the call had.
CloseOutcomeOverwrite(p, code, res, err) ==
    IF code /= Some(0)
    THEN [state |-> "rejected", value |-> CloseMessage(code, err)]
    ELSE [state |-> "fulfilled", value |-> res]

\* CloseOutcome with the failure branch left out: a non-zero exit settles
\* nothing.
CloseOutcomeNoFailure(p, code, res, err) ==
    IF code /= Some(0) THEN p ELSE Resolve(p, res)

\* The promise after the close handler (lines 106-114).
CloseOutcome(p, code, res, err) ==
    IF code /= Some(0) THEN Reject(p, CloseMessage(code, err)) ELSE Resolve(p, res)

\* OnClose with a retry: a non-zero exit spawns the same command again.
OnCloseRetry(c, code) ==
    /\ Listening(c)
    /\ emitted' = [emitted EXCEPT ![c].close = Some(code)]
    /\ promise' = [promise EXCEPT ![c] = CloseOutcome(promise[c], code, result[c], error[c])]
    /\ trace' = [trace EXCEPT ![c] = Append(trace[c], "close")]
    /\ spawned' = IF code /= Some(0)
                  THEN Append(spawned, [call |-> c, file |-> pandoc[c][1].spawnfile,
                                        args |-> pandoc[c][1].spawnargs,
                                        options |-> request[c][1].spawnOpts])
                  ELSE spawned
    /\ UNCHANGED <<pandocCommand, request, result, error, pandoc>>

\* pandoc.on('close', code => ...)
OnClose(c, code) ==
    /\ Listening(c)
    /\ emitted' = [emitted EXCEPT ![c].close = Some(code)]
    /\ promise' = [promise EXCEPT ![c] = CloseOutcome(promise[c], code, result[c], error[c])]
    /\ trace' = [trace EXCEPT ![c] = Append(trace[c], "close")]
    /\ UNCHANGED <<pandocCommand, request, result, error, pandoc, spawned>>

----------------------------------------------------------------------------
(* Specification: one Execute call on a PdcTs instance *)

Init ==
    /\ pandocCommand \in Commands
    /\ request = [c \in Calls |-> Absent]
    /\ promise = [c \in Calls |-> NotCalled]
    /\ result = [c \in Calls |-> ""]
    /\ error = [c \in Calls |-> ""]
    /\ pandoc = [c \in Calls |-> Absent]
    /\ spawned = <<>>
    /\ emitted = [c \in Calls |-> NothingEmitted]
    /\ trace = [c \in Calls |-> <<>>]

SingleCall == {"c1"}

Next ==
    \E c \in SingleCall :
        \/ \E args \in Requests : Execute(c, args)
        \/ \E message \in ErrorMessages : OnError(c, message)
        \/ \E data \in StdoutChunks : OnStdoutData(c, data)
        \/ \E data \in StderrChunks : OnStderrData(c, data)
        \/ \E code \in ExitCodes : OnClose(c, code)

Spec == Init /\ [][Next]_vars

----------------------------------------------------------------------------
(* Specification: two concurrent Execute calls on the same PdcTs instance, *)
(* their processes' events interleaved in every order                      *)

\* A text request, a file request, one with both sources and one with none.
ConcurrentRequests ==
    { r \in Requests :
        /\ ~r.outputToFile /\ r.destFilePath = Absent
        /\ r.pandocArgs = Absent /\ r.spawnOpts = Absent /\ r.sourceEncoding = Absent
        /\ r.sourceText \in {Absent, Some("# Heading")}
        /\ r.sourceFilePath \in {Absent, Some("/in.md")} }

ConcurrentStdoutChunks == {<<104, 195>>}
ConcurrentErrorMessages == {"spawn pandoc ENOENT"}
ConcurrentExitCodes == {Some(0), Some(22)}

NextConcurrent ==
    \E c \in Calls :
        \/ \E args \in ConcurrentRequests : Execute(c, args)
        \/ \E message \in ConcurrentErrorMessages : OnError(c, message)
        \/ \E data \in ConcurrentStdoutChunks : OnStdoutData(c, data)
        \/ \E data \in StderrChunks : OnStderrData(c, data)
        \/ \E code \in ConcurrentExitCodes : OnClose(c, code)

SpecConcurrent == Init /\ [][NextConcurrent]_vars

----------------------------------------------------------------------------
(* Specification: one Execute call whose process, once spawned, eventually *)
(* closes (Node emits 'close' when the child has ended and its streams are *)
(* closed, also after a failed spawn)                                      *)

ProcessCloses(c) == \E code \in ExitCodes : OnClose(c, code)

SpecFair == Init /\ [][Next]_vars /\ \A c \in SingleCall : WF_vars(ProcessCloses(c))

----------------------------------------------------------------------------
(* Vocabulary of the properties *)

Called(c) == request[c] /= Absent
Req(c) == request[c][1]

\* The spawn calls made for call c.
SpawnsOf(c) == {i \in 1..Len(spawned) : spawned[i].call = c}

Errored(c) == emitted[c].error /= Absent
Closed(c) == emitted[c].close /= Absent
ExitCode(c) == emitted[c].close[1]

\* The text of a stream: every chunk received, in arrival order.
RECURSIVE TextOf(_)
TextOf(chunks) ==
    IF chunks = <<>> THEN ""
    ELSE BufferToString(Head(chunks)) \o TextOf(Tail(chunks))

Rejected(c, message) == promise[c] = [state |-> "rejected", value |-> message]
Fulfilled(c, value) == promise[c] = [state |-> "fulfilled", value |-> value]

----------------------------------------------------------------------------
(* Properties *)

\* C1: a call whose request has neither sourceText nor sourceFilePath is
\* rejected, and in no state has a process been spawned for it.
C1_NoSourceRejectedNoSpawn ==
    \A c \in Calls :
        (Called(c) /\ Req(c).sourceText = Absent /\ Req(c).sourceFilePath = Absent)
            => /\ promise[c].state = "rejected"
               /\ SpawnsOf(c) = {}
               /\ pandoc[c] = Absent

C1_Witness ==
    /\ Called("c1")
    /\ Req("c1").sourceText = Absent /\ Req("c1").sourceFilePath = Absent
    /\ ~Req("c1").outputToFile
    /\ Rejected("c1", "No input, aborting.")

\* C2: a call with outputToFile = true and an empty or missing destFilePath
\* is rejected and no process is spawned, whatever source it has.
C2_NoDestinationRejectedNoSpawn ==
    \A c \in Calls :
        (Called(c) /\ Req(c).outputToFile /\ ~Truthy(Req(c).destFilePath))
            => /\ promise[c].state = "rejected"
               /\ SpawnsOf(c) = {}

\* The message a non-zero close is reported with.
ExitMessage(code, stderrText) ==
    "Pandoc exited with code " \o CodeToString(code)
        \o (IF stderrText = "" THEN "." ELSE ": " \o stderrText)

\* C3 as stated: whenever the process has closed with a code other than 0,
\* the call is rejected with the exit message built from the code and the
\* whole standard-error text.
C3_NonZeroExitMessage ==
    \A c \in Calls :
        (Closed(c) /\ ExitCode(c) /= Some(0))
            => Rejected(c, ExitMessage(ExitCode(c), TextOf(emitted[c].stderr)))

\* C3, amended: whenever the process has closed with a code other than 0 the
\* call is not resolved, and if no 'error' event came before the close it is
\* rejected with the exit message built from the code and the whole
\* standard-error text.
C3_NonZeroExitMessageUnlessErrored ==
    \A c \in Calls :
        (Closed(c) /\ ExitCode(c) /= Some(0))
            => /\ promise[c].state = "rejected"
               /\ ~Errored(c)
                    => Rejected(c, ExitMessage(ExitCode(c), TextOf(emitted[c].stderr)))

C3_Witness ==
    /\ Closed("c1") /\ ExitCode("c1") = Some(22) /\ ~Errored("c1")
    /\ Len(emitted["c1"].stderr) = 2
    /\ Rejected("c1", "Pandoc exited with code 22: w\\u00E9w\\u00E9")

LaterStep(c, from, steps) ==
    \E j \in (from + 1)..Len(trace[c]) : trace[c][j] \in steps

\* After the 'error' handler ran, some step of steps ran.
AfterError(c, steps) ==
    \E i \in 1..Len(trace[c]) : trace[c][i] = "error" /\ LaterStep(c, i, steps)

\* C5 as stated: once the process has emitted 'error', the call is rejected
\* with the error's message, and no data handler, close handler or stdin
\* write of the call has run after the error handler.
C5_ErrorEndsHandling ==
    \A c \in Calls :
        Errored(c)
            => /\ Rejected(c, emitted[c].error[1])
               /\ ~AfterError(c, {"stdout data", "stderr data", "close", "stdin.end"})

\* C5, amended: once the process has emitted 'error', the call is rejected
\* with the error's message in every later state, and no stdin write of the
\* call has run after the error handler.
C5_ErrorRejectsForGood ==
    \A c \in Calls :
        Errored(c)
            => /\ Rejected(c, emitted[c].error[1])
               /\ ~AfterError(c, {"stdin.end"})

C5_Witness ==
    /\ Errored("c1") /\ Closed("c1") /\ ExitCode("c1") = Some(0)
    /\ AfterError("c1", {"stdout data"}) /\ AfterError("c1", {"close"})
    /\ "stdin.end" \in {trace["c1"][i] : i \in 1..Len(trace["c1"])}
    /\ Rejected("c1", "The operation was aborted")

\* The request passes both checks of Execute.
PassesValidation(r) ==
    /\ ~(r.outputToFile /\ r.destFilePath = Absent)
    /\ (Truthy(r.sourceText) \/ Truthy(r.sourceFilePath))

\* File-input mode: no usable sourceText, so the path is the source.
FileInputMode(r) == ~Truthy(r.sourceText)

\* The argument list of the command-line contract.
ExpectedArgs(r, withPath) ==
    <<"-f", r.from, "-t", r.to>>
        \o (IF r.outputToFile THEN <<"-o", Value(r.destFilePath)>> ELSE <<>>)
        \o (IF withPath THEN <<Value(r.sourceFilePath)>> ELSE <<>>)
        \o (IF r.pandocArgs = Absent THEN <<>> ELSE r.pandocArgs[1])

\* C6: a call that passes validation has spawned, and the argument list it
\* gave to spawn is -f from -t to, then -o destFilePath iff outputToFile,
\* then sourceFilePath iff the call is in file-input mode, then pandocArgs.
C6_ArgumentList ==
    \A c \in Calls :
        (Called(c) /\ PassesValidation(Req(c)))
            => /\ SpawnsOf(c) /= {}
               /\ \A i \in SpawnsOf(c) :
                      spawned[i].args = ExpectedArgs(Req(c), FileInputMode(Req(c)))

C6_Witness ==
    /\ Called("c1") /\ Req("c1").sourceText = Absent
    /\ spawned = << [call |-> "c1", file |-> "pandoc", options |-> Some("opts"),
                     args |-> <<"-f", "markdown", "-t", "html", "-o", "/out.html",
                                "/in.md", "-s", "-v">>] >>

HasPathArgument(c) == pandoc[c][1].spawnargs = ExpectedArgs(Req(c), TRUE)
HasNoPathArgument(c) == pandoc[c][1].spawnargs = ExpectedArgs(Req(c), FALSE)
WroteNothing(c) == pandoc[c][1].stdin = [written |-> <<>>, ended |-> FALSE]
WroteText(c) ==
    /\ Len(pandoc[c][1].stdin.written) = 1
    /\ pandoc[c][1].stdin.written[1].chunk = Req(c).sourceText[1]
    /\ pandoc[c][1].stdin.ended

\* C8: in every state, a spawned process has its source either as the path
\* in its argument list, with nothing written to its input stream, or as
\* the text written to its input stream, with no path in its argument list;
\* the first when sourceFilePath is set and sourceText is absent, the second
\* when the call is in text mode.
C8_OneSourceChannel ==
    \A c \in Calls :
        pandoc[c] /= Absent
            => /\ \/ HasPathArgument(c) /\ WroteNothing(c)
                  \/ HasNoPathArgument(c) /\ WroteText(c)
               /\ (Req(c).sourceFilePath /= Absent /\ Req(c).sourceText = Absent)
                    => (HasPathArgument(c) /\ WroteNothing(c))
               /\ ~FileInputMode(Req(c))
                    => (HasNoPathArgument(c) /\ WroteText(c))

C8_Witness ==
    /\ pandoc["c1"] /= Absent
    /\ Req("c1").sourceFilePath = Some("/in.md") /\ Req("c1").sourceText = Absent
    /\ HasPathArgument("c1") /\ WroteNothing("c1")
    /\ Closed("c1") /\ Len(emitted["c1"].stdout) = 1

\* C9: a call with outputToFile = true and a destFilePath, whose process
\* closed with code 0 (no 'error' before), is resolved with the empty string.
C9_FileOutputResolvesEmpty ==
    \A c \in Calls :
        (Called(c) /\ Req(c).outputToFile /\ Truthy(Req(c).destFilePath)
           /\ Closed(c) /\ ExitCode(c) = Some(0) /\ ~Errored(c))
            => Fulfilled(c, "")

\* C10: in every state, whatever events its process has emitted, a call
\* that passed validation has called spawn exactly once.
C10_SpawnsExactlyOnce ==
    \A c \in Calls :
        (Called(c) /\ PassesValidation(Req(c))) => Cardinality(SpawnsOf(c)) = 1

C10_Witness ==
    /\ Called("c1") /\ PassesValidation(Req("c1"))
    /\ Errored("c1") /\ Closed("c1") /\ ExitCode("c1") = Some(-2)
    /\ Len(spawned) = 1

\* The outcome call c has by its own request and its own process's events
\* alone (an 'error' event, when there is one, comes before the 'close').
OwnOutcome(c) ==
    IF ~Called(c) THEN [state |-> "none", value |-> ""]
    ELSE IF Req(c).outputToFile /\ Req(c).destFilePath = Absent
         THEN [state |-> "rejected", value |-> "No file destination provided, aborting."]
    ELSE IF ~PassesValidation(Req(c))
         THEN [state |-> "rejected", value |-> "No input, aborting."]
    ELSE IF Errored(c)
         THEN [state |-> "rejected", value |-> emitted[c].error[1]]
    ELSE IF ~Closed(c)
         THEN [state |-> "pending", value |-> ""]
    ELSE IF ExitCode(c) /= Some(0)
         THEN [state |-> "rejected",
               value |-> ExitMessage(ExitCode(c), TextOf(emitted[c].stderr))]
    ELSE [state |-> "fulfilled", value |-> TextOf(emitted[c].stdout)]

\* C11: under every interleaving of two calls' events, each call has at most
\* one process, spawned from its own request, its buffers hold the text of
\* its own process's streams only, and its outcome is the one its own request
\* and its own process's events give.
C11_CallsIndependent ==
    \A c \in Calls :
        /\ Cardinality(SpawnsOf(c)) <= 1
        /\ pandoc[c] /= Absent
             => pandoc[c][1].spawnargs = ExpectedArgs(Req(c), FileInputMode(Req(c)))
        /\ result[c] = TextOf(emitted[c].stdout)
        /\ error[c] = TextOf(emitted[c].stderr)
        /\ promise[c] = OwnOutcome(c)

C11_Witness ==
    /\ Closed("c1") /\ Closed("c2")
    /\ Req("c1").sourceText = Some("# Heading") /\ Req("c2").sourceText = Absent
    /\ spawned[1].call = "c2"
    /\ emitted["c1"].stdout = << <<104, 195>> >> /\ emitted["c1"].stderr = <<>>
    /\ emitted["c2"].stdout = << <<104, 195>> >> /\ Len(emitted["c2"].stderr) = 1
    /\ Fulfilled("c1", "h\\uFFFD")
    /\ Rejected("c2", "Pandoc exited with code 22: w\\u00E9")

\* C12: in every state in which a call's process has been spawned and has
\* delivered neither 'error' nor 'close', the call is pending, whatever data
\* the process has emitted.
C12_PendingUntilErrorOrClose ==
    \A c \in Calls :
        (pandoc[c] /= Absent /\ ~Errored(c) /\ ~Closed(c))
            => promise[c] = [state |-> "pending", value |-> ""]

C12_Witness ==
    /\ pandoc["c1"] /= Absent /\ ~Errored("c1") /\ ~Closed("c1")
    /\ Len(emitted["c1"].stdout) = 1 /\ Len(emitted["c1"].stderr) = 1
    /\ promise["c1"].state = "pending"

ProcessEvents == {"error", "stdout data", "stderr data", "close"}

\* C13: a spawned call in text-input mode has made exactly one write to the
\* process's input stream, of the whole sourceText, ending the stream, with
\* sourceEncoding or 'utf8' as the encoding; the write comes right after the
\* four handler registrations and before every event of the process.
C13_SingleSynchronousWrite ==
    \A c \in Calls :
        (pandoc[c] /= Absent /\ Truthy(Req(c).sourceText))
            => /\ pandoc[c][1].stdin =
                     [written |-> <<[chunk |-> Req(c).sourceText[1],
                                     encoding |-> IF Req(c).sourceEncoding = Absent
                                                  THEN "utf8"
                                                  ELSE Req(c).sourceEncoding[1]]>>,
                      ended |-> TRUE]
               /\ Len(trace[c]) >= 6
               /\ SubSeq(trace[c], 1, 6) =
                     <<"spawn", "on error", "on stdout data", "on stderr data",
                       "on close", "stdin.end">>
               /\ \A j \in 7..Len(trace[c]) : trace[c][j] \in ProcessEvents

C13_Witness ==
    /\ pandoc["c1"] /= Absent
    /\ Req("c1").sourceText = Some("# Heading")
    /\ Req("c1").sourceEncoding = Some("latin1")
    /\ pandoc["c1"][1].stdin =
          [written |-> <<[chunk |-> "# Heading", encoding |-> "latin1"]>>, ended |-> TRUE]
    /\ Len(trace["c1"]) = 8 /\ trace["c1"][7] = "stdout data" /\ trace["c1"][8] = "close"

\* The call was spawned in file-input mode: sourceFilePath is its source.
UsedFileInput(c) == Called(c) /\ pandoc[c] /= Absent /\ FileInputMode(Req(c))

Settled(c) == promise[c].state \in {"fulfilled", "rejected"}

\* The lifecycle of a call's process.
Lifecycle(c) ==
    IF pandoc[c] = Absent THEN "NotStarted"
    ELSE IF Errored(c) THEN "LaunchFailed"
    ELSE IF Closed(c) THEN "Completed"
    ELSE "Running"

LifecycleRank(l) ==
    CASE l = "NotStarted" -> 0 [] l = "Running" -> 1
      [] l = "Completed" -> 2 [] l = "LaunchFailed" -> 2

\* C15: in every step, a settled call keeps its outcome and its value; a
\* pending call is settled only by the first 'error' or 'close' event of its
\* process; a 'close' after an 'error' leaves the call rejected with the
\* error's message; and the lifecycle moves forward only, from NotStarted to
\* Running to Completed or LaunchFailed, which it never leaves.
C15_OutcomeFixedOnce ==
    [][ \A c \in Calls :
          /\ Settled(c) => promise'[c] = promise[c]
          /\ (promise[c].state = "pending" /\ Settled(c)')
               => /\ ~Errored(c) /\ ~Closed(c)
                  /\ Errored(c)' \/ Closed(c)'
          /\ (Errored(c) /\ ~Closed(c) /\ Closed(c)')
               => promise'[c] = [state |-> "rejected", value |-> emitted[c].error[1]]
          /\ LifecycleRank(Lifecycle(c)') >= LifecycleRank(Lifecycle(c))
          /\ Lifecycle(c) \in {"Completed", "LaunchFailed"}
               => Lifecycle(c)' = Lifecycle(c)
      ]_vars

C15_Witness ==
    /\ Errored("c1") /\ Closed("c1") /\ ExitCode("c1") = Some(0)
    /\ Len(emitted["c1"].stdout) = 1
    /\ Lifecycle("c1") = "LaunchFailed"
    /\ Rejected("c1", "spawn pandoc ENOENT")

\* C16: a call that fails validation is rejected by the call itself; a
\* spawned call is settled in every state in which its process has delivered
\* 'error' or 'close'; and, the process eventually closing, every call made
\* is eventually settled.
C16_EventuallySettles ==
    /\ [](\A c \in Calls : (Called(c) /\ pandoc[c] = Absent) => promise[c].state = "rejected")
    /\ [](\A c \in Calls : (Errored(c) \/ Closed(c)) => Settled(c))
    /\ \A c \in Calls : Called(c) ~> Settled(c)

C16_Witness ==
    /\ Called("c1") /\ pandoc["c1"] /= Absent
    /\ ~Errored("c1") /\ Closed("c1") /\ ExitCode("c1") = Absent
    /\ Len(emitted["c1"].stderr) = 2
    /\ Rejected("c1", "Pandoc exited with code null: w\\u00E9w\\u00E9")

EmptyText(c) == Called(c) /\ Req(c).sourceText = Some("")

RanInFileMode(c) ==
    /\ pandoc[c] /= Absent
    /\ HasPathArgument(c)
    /\ WroteNothing(c)
    /\ "stdin.end" \notin {trace[c][i] : i \in 1..Len(trace[c])}

RejectedNoInput(c) ==
    /\ Rejected(c, "No input, aborting.")
    /\ SpawnsOf(c) = {} /\ pandoc[c] = Absent

\* C17 as stated: a call with sourceText = "" runs in file-input mode with
\* no input-stream write when sourceFilePath is set, and is rejected with
\* 'No input, aborting.' with no process spawned when it is not.
C17_EmptyTextAsAbsent ==
    \A c \in Calls :
        EmptyText(c)
            => /\ Req(c).sourceFilePath /= Absent => RanInFileMode(c)
               /\ Req(c).sourceFilePath = Absent => RejectedNoInput(c)

\* C17, amended: a call with sourceText = "" that passes the destination
\* check runs in file-input mode with no input-stream write when
\* sourceFilePath is a non-empty string, and is rejected with 'No input,
\* aborting.' with no process spawned when sourceFilePath is absent or
\* empty; one that fails the destination check is rejected with 'No file
\* destination provided, aborting.' with no process spawned.
C17_EmptyTextAsAbsentAfterDestinationCheck ==
    \A c \in Calls :
        EmptyText(c)
            => IF Req(c).outputToFile /\ Req(c).destFilePath = Absent
               THEN /\ Rejected(c, "No file destination provided, aborting.")
                    /\ SpawnsOf(c) = {} /\ pandoc[c] = Absent
               ELSE /\ Truthy(Req(c).sourceFilePath) => RanInFileMode(c)
                    /\ ~Truthy(Req(c).sourceFilePath) => RejectedNoInput(c)

C17_Witness ==
    /\ EmptyText("c1") /\ Req("c1").sourceFilePath = Some("/in.md")
    /\ Req("c1").outputToFile /\ Req("c1").destFilePath = Some("/out.html")
    /\ RanInFileMode("c1")
    /\ Closed("c1") /\ ExitCode("c1") = Some(0)

====
